---- MODULE Spec2Model ----
(***************************************************************************)
(* Model of risk_analyzer.py: the batch run generate_risk_scores, its      *)
(* ThreadPoolExecutor fan-out of fetch_real_transactions, the per-wallet   *)
(* calculate_features reduction and the MinMaxScaler based scoring.        *)
(*                                                                         *)
(* Numbers.  USD amounts are integers counting 1e-7 USD, so that the       *)
(* code's 0.4 * supplied and its 1e-6 guard are exact integers.  Ratios    *)
(* (health_factor_proxy, the normalised columns, the weighted sum) are     *)
(* exact rationals <<n, d>> in lowest terms with d > 0; the code computes  *)
(* them in binary floating point, whose rounding is not modelled.          *)
(* Timestamps are seconds.                                                 *)
(***************************************************************************)
EXTENDS Integers, Sequences, FiniteSets, TLC

VARIABLES
    wallet_addresses,    \* the list get_wallet_addresses returned (distinct ids)
    api_key,             \* the api_key argument
    ledger,              \* what the remote API answers for each wallet
    pc,                  \* position of the main thread in generate_risk_scores
    submitted,           \* number of tasks executor.map has submitted so far
    work_queue,          \* the executor's queue of submitted, not yet started tasks
    in_flight,           \* tasks a worker thread is running (request outstanding)
    futures,             \* per task: Pending, or what fetch_wallet_data_wrapper returned
    next_result,         \* index of the result the main thread's for loop waits for
    all_transactions,    \* dict address -> events DataFrame
    features_list,       \* features_df: one row per wallet, once computed
    normalized_features, \* scaler.fit_transform output, once computed
    error_printed,       \* the "API Key not found" line was printed
    ret                  \* what generate_risk_scores returned (NotReturned before)

vars == <<wallet_addresses, api_key, ledger, pc, submitted, work_queue, in_flight,
          futures, next_result, all_transactions, features_list,
          normalized_features, error_printed, ret>>

----------------------------------------------------------------------------
(* Bounds of the model. *)

MaxWallets == 3

MaxPoolWallets == 6

----------------------------------------------------------------------------
(* Exact rational arithmetic. *)

Abs(x) == IF x < 0 THEN -x ELSE x

RECURSIVE GCD(_, _)
GCD(a, b) == IF b = 0 THEN a ELSE GCD(b, a % b)

Rat(n, d) ==
    LET s == IF d < 0 THEN -1 ELSE 1
        g == GCD(Abs(n), Abs(d))
    IN  <<(s * n) \div g, (s * d) \div g>>

RInt(k) == <<k, 1>>
RAdd(x, y) == LET g == GCD(x[2], y[2])
              IN  Rat(x[1] * (y[2] \div g) + y[1] * (x[2] \div g), (x[2] \div g) * y[2])
RNeg(x) == <<-x[1], x[2]>>
RSub(x, y) == RAdd(x, RNeg(y))
RMul(x, y) == LET a == Rat(x[1], y[2])
                  b == Rat(y[1], x[2])
              IN  <<a[1] * b[1], a[2] * b[2]>>
RInv(x) == Rat(x[2], x[1])
RLe(x, y) == x[1] * y[2] <= y[1] * x[2]
RLt(x, y) == x[1] * y[2] < y[1] * x[2]

\* int(x) of Python / astype(int) of numpy: truncation toward zero.
Trunc(x) == IF x[1] >= 0 THEN x[1] \div x[2] ELSE -((-x[1]) \div x[2])

Range(s) == {s[i] : i \in 1..Len(s)}

RECURSIVE SumSeq(_)
SumSeq(s) == IF s = <<>> THEN 0 ELSE Head(s) + SumSeq(Tail(s))

RECURSIVE RSumSeq(_)
RSumSeq(s) == IF s = <<>> THEN RInt(0) ELSE RAdd(Head(s), RSumSeq(Tail(s)))

SetMin(S) == CHOOSE x \in S : \A y \in S : x <= y

RMinOf(col) == col[CHOOSE i \in 1..Len(col) : \A j \in 1..Len(col) : RLe(col[i], col[j])]
RMaxOf(col) == col[CHOOSE i \in 1..Len(col) : \A j \in 1..Len(col) : RLe(col[j], col[i])]

----------------------------------------------------------------------------
(* Addresses.  An address is its hex digits together with the casing it is *)
(* written in: all lower case, or mixed case (checksummed).  str.lower()   *)
(* keeps the digits and drops the casing.                                  *)

Addr(hex, mixed) == [hex |-> hex, mixed |-> mixed]

Lower(a) == [a EXCEPT !.mixed = FALSE]

\* price_usd is held in cents (0.25 USD = 25).
get_compound_v2_ctokens ==
    (Addr("4ddc2d193948926d02f9b1fe9e1daa0718270ed5", FALSE) :>
        [symbol |-> "cETH", underlying_decimals |-> 18, price_cents |-> 350000]) @@
    (Addr("39aa39c021dfbae8fac545936693ac917d5e7563", FALSE) :>
        [symbol |-> "cUSDC", underlying_decimals |-> 6, price_cents |-> 100]) @@
    (Addr("5d3a536e4d6dbd6114cc1ead35777bab948e3643", FALSE) :>
        [symbol |-> "cDAI", underlying_decimals |-> 18, price_cents |-> 100]) @@
    (Addr("f650c3d88d12db855b8bf7d11be6c55a4e07dcc9", FALSE) :>
        [symbol |-> "cUSDT", underlying_decimals |-> 6, price_cents |-> 100]) @@
    (Addr("c11b1268c1a384e55c48c2391d8d480264a3a7f4", FALSE) :>
        [symbol |-> "cWBTC", underlying_decimals |-> 8, price_cents |-> 6500000]) @@
    (Addr("6c8c6b02e7b2be14d4fa6022dfd6d75921d90e4e", FALSE) :>
        [symbol |-> "cBAT", underlying_decimals |-> 18, price_cents |-> 25])

RECURSIVE Pow10(_)
Pow10(k) == IF k = 0 THEN 1 ELSE 10 * Pow10(k - 1)

\* value_raw / 10**decimals * price_usd, in units of 1e-7 USD.  Exact for the
\* amounts of the bounded inputs (tokens of 6 and 8 decimals).
ValueUsd(value_raw, token_info) ==
    (value_raw * token_info.price_cents) \div Pow10(token_info.underlying_decimals - 5)

----------------------------------------------------------------------------
(* The remote ledger API.  A response is a transport failure (requests     *)
(* raises a RequestException: no connection, or raise_for_status on a      *)
(* non-2xx reply), or a JSON body with a status and a result list.         *)

now == 10000000

cUSDC == Addr("39aa39c021dfbae8fac545936693ac917d5e7563", FALSE)
cUSDT == Addr("f650c3d88d12db855b8bf7d11be6c55a4e07dcc9", TRUE)
cWBTC == Addr("c11b1268c1a384e55c48c2391d8d480264a3a7f4", TRUE)
OtherToken == Addr("dac17f958d2ee523a2206206994597c13d831ec7", FALSE)
Elsewhere == Addr("0000000000000000000000000000000000000001", FALSE)

RawTx(contract, to, value, ts) ==
    [contractAddress |-> contract, to |-> to, value |-> value, timeStamp |-> ts]

Failure(kind) == [kind |-> kind, status |-> "", result |-> <<>>]
Body(status, result) == [kind |-> "ok", status |-> status, result |-> result]

\* The answers the API may give for wallet w (result lists ascending in time,
\* as the request's sort=asc asks).  Transfers name the wallet in the casing
\* of the request or in lower case.
LedgerAnswers(w) ==
    << Failure("ConnectionError"),
       Body("0", <<>>),
       Body("1", << RawTx(OtherToken, w, 7, now - 9 * 86400) >>),
       Body("1", << RawTx(cUSDC, w, 2, now - 3 * 86400 - 100) >>),
       Body("1", << RawTx(cUSDC, Lower(w), 1, now - 2 * 86400 - 50000),
                    RawTx(cUSDT, w, 3, now - 86400 - 100) >>),
       Body("1", << RawTx(cUSDC, Elsewhere, 5, now + 40000) >>),
       Body("1", << RawTx(cUSDC, w, 1, now - 86400 - 7),
                    RawTx(OtherToken, w, 9, now - 86400),
                    RawTx(cUSDC, Elsewhere, 1, now - 86000) >>),
       Body("1", << RawTx(cWBTC, w, 1, now - 40000) >>),
       Failure("HTTPError") >>

\* The answers (by position) the full pipeline draws from, and the two the
\* worker-pool specification draws from (a failure and a successful answer).
Answers == 1..Len(LedgerAnswers(Elsewhere))
PoolAnswers == {4, 9}

WalletUniverse ==
    << Addr("b1", TRUE), Addr("a2", FALSE), Addr("c3", TRUE), Addr("a4", FALSE),
       Addr("e5", TRUE), Addr("d6", FALSE), Addr("f7", TRUE), Addr("08", FALSE) >>

----------------------------------------------------------------------------
(* fetch_real_transactions and calculate_features. *)

EmptyDataFrame == <<>>

IsCToken(tx) == Lower(tx.contractAddress) \in DOMAIN get_compound_v2_ctokens

ToEvent(tx, wallet_address) ==
    LET token_info == get_compound_v2_ctokens[Lower(tx.contractAddress)]
    IN  [timestamp    |-> tx.timeStamp,
         event_type   |-> IF Lower(tx.to) = Lower(wallet_address) THEN "Mint" ELSE "Redeem",
         asset_symbol |-> token_info.symbol,
         value_usd    |-> ValueUsd(tx.value, token_info)]

\* A call either returns a value or raises.
Return(v) == [raised |-> FALSE, value |-> v]
Raise == [raised |-> TRUE, value |-> EmptyDataFrame]

\* Variant: the RequestException is not caught.
OnRequestException_reraise(response) == Raise

\* The except clause: a RequestException is caught and an empty frame returned.
OnRequestException(response) == Return(EmptyDataFrame)

fetch_real_transactions(wallet_address, response) ==
    IF response.kind # "ok" THEN OnRequestException(response)
    ELSE IF response.status # "1" THEN Return(EmptyDataFrame)
    ELSE LET kept == SelectSeq(response.result, IsCToken)
         IN  Return([i \in 1..Len(kept) |-> ToEvent(kept[i], wallet_address)])

\* Variant: the wrapper hands back the lower-cased address.
fetch_wallet_data_wrapper_lower(address, response) ==
    LET r == fetch_real_transactions(address, response)
    IN  [done |-> TRUE, raised |-> r.raised, address |-> Lower(address),
         transactions_df |-> r.value]

fetch_wallet_data_wrapper(address, response) ==
    LET r == fetch_real_transactions(address, response)
    IN  [done |-> TRUE, raised |-> r.raised, address |-> address,
         transactions_df |-> r.value]

IsMint(e) == e.event_type = "Mint"

\* Variant: Redeem events are subtracted.
Supplied_net(df) ==
    SumSeq([i \in 1..Len(df) |->
               IF IsMint(df[i]) THEN df[i].value_usd ELSE -df[i].value_usd])

Supplied(df) ==
    LET mints == SelectSeq(df, IsMint)
    IN  SumSeq([i \in 1..Len(mints) |-> mints[i].value_usd])

\* Variant: Redeem events are counted as liquidations.
calculate_features_liq(df) ==
    IF df = EmptyDataFrame
    THEN [liquidation_count |-> 0, total_supplied_usd |-> 0, total_borrowed_usd |-> 0,
          total_liquidated_usd |-> 0, distinct_assets_borrowed |-> 0,
          wallet_age_days |-> 0]
    ELSE [liquidation_count |-> Len(df) - Len(SelectSeq(df, IsMint)),
          total_supplied_usd |-> Supplied(df),
          total_borrowed_usd |-> (Supplied(df) * 4) \div 10,
          total_liquidated_usd |-> 0,
          distinct_assets_borrowed |->
              Cardinality({df[i].asset_symbol : i \in 1..Len(df)}),
          wallet_age_days |->
              (now - SetMin({df[i].timestamp : i \in 1..Len(df)})) \div 86400]

calculate_features(df) ==
    IF df = EmptyDataFrame
    THEN [liquidation_count |-> 0, total_supplied_usd |-> 0, total_borrowed_usd |-> 0,
          total_liquidated_usd |-> 0, distinct_assets_borrowed |-> 0,
          wallet_age_days |-> 0]
    ELSE LET total_supplied_usd == Supplied(df)
         IN  [liquidation_count |-> 0,
              total_supplied_usd |-> total_supplied_usd,
              total_borrowed_usd |-> (total_supplied_usd * 4) \div 10,
              total_liquidated_usd |-> 0,
              distinct_assets_borrowed |->
                  Cardinality({df[i].asset_symbol : i \in 1..Len(df)}),
              wallet_age_days |->
                  (now - SetMin({df[i].timestamp : i \in 1..Len(df)})) \div 86400]

\* features_df row: the features, the wallet id, and
\* total_borrowed_usd / (total_supplied_usd + 1e-6)  (1e-6 USD = 10 units).
FeatureRow(address, df) ==
    LET f == calculate_features(df)
    IN  [liquidation_count |-> f.liquidation_count,
         total_supplied_usd |-> f.total_supplied_usd,
         total_borrowed_usd |-> f.total_borrowed_usd,
         total_liquidated_usd |-> f.total_liquidated_usd,
         distinct_assets_borrowed |-> f.distinct_assets_borrowed,
         wallet_age_days |-> f.wallet_age_days,
         wallet_id |-> address,
         health_factor_proxy |-> Rat(f.total_borrowed_usd, f.total_supplied_usd + 10)]


----------------------------------------------------------------------------
(* Scoring: MinMaxScaler, the age inversion, the weights. *)

feature_columns ==
    << "liquidation_count", "health_factor_proxy", "total_liquidated_usd",
       "distinct_assets_borrowed", "wallet_age_days" >>

\* weights, in hundredths.
weights ==
    [liquidation_count |-> 40, health_factor_proxy |-> 30, total_liquidated_usd |-> 15,
     distinct_assets_borrowed |-> 10, wallet_age_days |-> 5]

ColumnOf(rows, c) ==
    [i \in 1..Len(rows) |->
        IF c = "health_factor_proxy" THEN rows[i][c] ELSE RInt(rows[i][c])]

\* sklearn's _handle_zeros_in_scale: a zero range is replaced by 1.
HandleZeros(data_range) == IF data_range[1] = 0 THEN RInt(1) ELSE data_range

\* Variant: the column minimum is not subtracted.
MinMaxScaler_noshift(col) ==
    LET scale_ == RInv(HandleZeros(RSub(RMaxOf(col), RMinOf(col))))
    IN  [i \in 1..Len(col) |-> RMul(col[i], scale_)]

\* MinMaxScaler().fit_transform on one column:
\* scale_ = 1 / handle_zeros(max - min); min_ = 0 - min * scale_; X * scale_ + min_.
MinMaxScaler(col) ==
    LET data_min == RMinOf(col)
        data_max == RMaxOf(col)
        scale_   == RInv(HandleZeros(RSub(data_max, data_min)))
        min_     == RSub(RInt(0), RMul(data_min, scale_))
    IN  [i \in 1..Len(col) |-> RAdd(RMul(col[i], scale_), min_)]

FitTransform(rows) ==
    [i \in 1..Len(rows) |->
        [c \in Range(feature_columns) |-> MinMaxScaler(ColumnOf(rows, c))[i]]]

\* Variant: the age column is not inverted.
InvertAge_none(x) == x

\* normalized_df['wallet_age_days'] = 1 - normalized_df['wallet_age_days']
InvertAge(x) == RSub(RInt(1), x)

NormalizedDf(normalized) ==
    [i \in 1..Len(normalized) |->
        [normalized[i] EXCEPT !["wallet_age_days"] = InvertAge(@)]]

\* Variant: the weights are taken as percentages.
FinalScore_percent(row) ==
    RSumSeq([k \in 1..Len(feature_columns) |->
                RMul(row[feature_columns[k]], RInt(weights[feature_columns[k]]))])

FinalScore(row) ==
    RSumSeq([k \in 1..Len(feature_columns) |->
                RMul(row[feature_columns[k]], Rat(weights[feature_columns[k]], 100))])

\* (final_score * 1000).astype(int)
ScoreOf(row) == Trunc(RMul(FinalScore(row), RInt(1000)))

FinalDf(rows, normalized) ==
    [i \in 1..Len(rows) |->
        [wallet_id |-> rows[i].wallet_id, score |-> ScoreOf(NormalizedDf(normalized)[i])]]

----------------------------------------------------------------------------
(* The batch run. *)

max_workers == 5

NotReturned == [kind |-> "NotReturned", rows |-> <<>>]
DataFrame(rows) == [kind |-> "DataFrame", rows |-> rows]
Raised == [kind |-> "Exception", rows |-> <<>>]

Pending == [done |-> FALSE, raised |-> FALSE, address |-> Elsewhere,
            transactions_df |-> EmptyDataFrame]

\* Python truthiness of the api_key argument: None and "" are falsy.
Truthy(key) == key \notin {"None", ""}

N == Len(wallet_addresses)

Reverse(s) == [i \in 1..Len(s) |-> s[Len(s) + 1 - i]]

\* The wallet lists tried: distinct ids, in two different orders.
InputLists(max_n) ==
    {SubSeq(WalletUniverse, 1, n) : n \in 0..max_n} \cup
    {Reverse(SubSeq(WalletUniverse, 1, n)) : n \in 0..max_n}

InitWith(max_n, answers) ==
    /\ wallet_addresses \in InputLists(max_n)
    /\ api_key \in {"None", "", "KEY"}
    /\ \E k \in [Range(wallet_addresses) -> answers] :
          ledger = [w \in Range(wallet_addresses) |-> LedgerAnswers(w)[k[w]]]
    /\ pc = "start"
    /\ submitted = 0
    /\ work_queue = <<>>
    /\ in_flight = {}
    /\ futures = [i \in 1..N |-> Pending]
    /\ next_result = 1
    /\ all_transactions = <<>>
    /\ features_list = <<>>
    /\ normalized_features = <<>>
    /\ error_printed = FALSE
    /\ ret = NotReturned

Init == InitWith(MaxWallets, Answers)

InitPool == InitWith(MaxPoolWallets, PoolAnswers)

\* Lines 135-143: the two early returns, else the executor is created.
Start ==
    /\ pc = "start"
    /\ IF wallet_addresses = <<>>
       THEN /\ pc' = "done"
            /\ ret' = DataFrame(<<>>)
            /\ UNCHANGED error_printed
       ELSE IF ~Truthy(api_key)
       THEN /\ pc' = "done"
            /\ ret' = DataFrame(<<>>)
            /\ error_printed' = TRUE
       ELSE /\ pc' = "submit"
            /\ UNCHANGED <<ret, error_printed>>
    /\ UNCHANGED <<wallet_addresses, api_key, ledger, submitted, work_queue, in_flight,
                   futures, next_result, all_transactions, features_list,
                   normalized_features>>

\* executor.map submits one task per wallet, in list order, before it returns
\* the result iterator.
Submit ==
    /\ pc = "submit"
    /\ submitted' = submitted + 1
    /\ work_queue' = Append(work_queue, submitted + 1)
    /\ pc' = IF submitted + 1 = N THEN "collect" ELSE "submit"
    /\ UNCHANGED <<wallet_addresses, api_key, ledger, in_flight, futures, next_result,
                   all_transactions, features_list, normalized_features,
                   error_printed, ret>>

\* Variant: one thread too many.
WorkerAvailable_offbyone == Cardinality(in_flight) <= max_workers

\* The executor runs at most max_workers threads, each running one task at a time.
WorkerAvailable == Cardinality(in_flight) < max_workers

\* A worker takes the oldest queued task and calls fetch_wallet_data_wrapper:
\* the request goes out.
Dispatch ==
    /\ work_queue # <<>>
    /\ WorkerAvailable
    /\ in_flight' = in_flight \cup {Head(work_queue)}
    /\ work_queue' = Tail(work_queue)
    /\ UNCHANGED <<wallet_addresses, api_key, ledger, pc, submitted, futures,
                   next_result, all_transactions, features_list,
                   normalized_features, error_printed, ret>>

\* The request of task i ends (answer or failure); the wrapper's result, or
\* the exception it raised, is stored in the task's future.
FetchComplete(i) ==
    /\ i \in in_flight
    /\ futures' = [futures EXCEPT
                      ![i] = fetch_wallet_data_wrapper(wallet_addresses[i],
                                                       ledger[wallet_addresses[i]])]
    /\ in_flight' = in_flight \ {i}
    /\ UNCHANGED <<wallet_addresses, api_key, ledger, pc, submitted, work_queue,
                   next_result, all_transactions, features_list,
                   normalized_features, error_printed, ret>>

\* One iteration of "for address, transactions_df in results": the iterator
\* yields results in submission order and blocks until the next one is done; a
\* task's exception is re-raised here and leaves generate_risk_scores.
Collect ==
    /\ pc = "collect"
    /\ next_result <= N
    /\ futures[next_result].done
    /\ IF futures[next_result].raised
       THEN /\ pc' = "done"
            /\ ret' = Raised
            /\ UNCHANGED <<next_result, all_transactions>>
       ELSE /\ all_transactions' =
                  [a \in DOMAIN all_transactions \cup {futures[next_result].address} |->
                      IF a = futures[next_result].address
                      THEN futures[next_result].transactions_df
                      ELSE all_transactions[a]]
            /\ next_result' = next_result + 1
            /\ UNCHANGED <<pc, ret>>
    /\ UNCHANGED <<wallet_addresses, api_key, ledger, submitted, work_queue, in_flight,
                   futures, features_list, normalized_features, error_printed>>

\* Variant: the loop stops one result early.
FetchesJoined_early == next_result >= N

\* The for loop over results has ended and the with block is left (shutdown
\* waits for the workers).
FetchesJoined == next_result > N

\* all_transactions.get(address, pd.DataFrame())
GetTransactions(address) ==
    IF address \in DOMAIN all_transactions THEN all_transactions[address]
    ELSE EmptyDataFrame

\* Lines 153-163: features of every wallet, in list order, and the health factor.
ComputeFeatures ==
    /\ pc = "collect"
    /\ FetchesJoined
    /\ features_list' =
          [i \in 1..N |-> FeatureRow(wallet_addresses[i],
                                     GetTransactions(wallet_addresses[i]))]
    /\ pc' = "score"
    /\ UNCHANGED <<wallet_addresses, api_key, ledger, submitted, work_queue, in_flight,
                   futures, next_result, all_transactions, normalized_features,
                   error_printed, ret>>

\* Lines 165-183: normalise, invert the age, weigh, and return final_df.
Score ==
    /\ pc = "score"
    /\ normalized_features' = FitTransform(features_list)
    /\ ret' = DataFrame(FinalDf(features_list, FitTransform(features_list)))
    /\ pc' = "done"
    /\ UNCHANGED <<wallet_addresses, api_key, ledger, submitted, work_queue, in_flight,
                   futures, next_result, all_transactions, features_list,
                   error_printed>>

Next ==
    \/ Start
    \/ Submit
    \/ Dispatch
    \/ \E i \in 1..N : FetchComplete(i)
    \/ Collect
    \/ ComputeFeatures
    \/ Score

Spec == Init /\ [][Next]_vars


\* The scheduling the code guarantees up to the dispatch of the tasks: the
\* main thread keeps running and an idle worker takes a queued task.  Nothing
\* bounds how long a request takes (requests.get is called without a
\* timeout), so FetchComplete is not fair.
FairPoolSpec ==
    /\ InitPool
    /\ [][Next]_vars
    /\ WF_vars(Start)
    /\ WF_vars(Submit)
    /\ WF_vars(Dispatch)
    /\ WF_vars(Collect)

----------------------------------------------------------------------------
(* Properties. *)

\* The run got past both early returns.
Runs == wallet_addresses # <<>> /\ Truthy(api_key)

Completed == pc = "done" /\ Runs

\* What the API answer of the i-th wallet parses to.
OwnEvents(i) ==
    fetch_real_transactions(wallet_addresses[i], ledger[wallet_addresses[i]]).value

OwnRows == [i \in 1..N |-> FeatureRow(wallet_addresses[i], OwnEvents(i))]

FetchFailed(i) ==
    \/ ledger[wallet_addresses[i]].kind # "ok"
    \/ ledger[wallet_addresses[i]].status # "1"

Attempted == in_flight \cup {i \in 1..N : futures[i].done}

AllFetchesDone ==
    /\ submitted = N
    /\ work_queue = <<>>
    /\ in_flight = {}
    /\ \A i \in 1..N : futures[i].done

ZeroFeatures(row) ==
    /\ row.liquidation_count = 0
    /\ row.total_supplied_usd = 0
    /\ row.total_borrowed_usd = 0
    /\ row.total_liquidated_usd = 0
    /\ row.distinct_assets_borrowed = 0
    /\ row.wallet_age_days = 0

\* C1: a completed run over a non-empty wallet list with credentials returns
\* exactly one record per input wallet, in input order; each wallet's events
\* and features are those of its own API answer, and the scores are those of
\* these features, whatever order the fetches ended in.
C1_OneRecordPerWalletInOrder ==
    Completed =>
        /\ ret.kind = "DataFrame"
        /\ Len(ret.rows) = N
        /\ \A i \in 1..N : ret.rows[i].wallet_id = wallet_addresses[i]
        /\ \A i \in 1..N :
              /\ wallet_addresses[i] \in DOMAIN all_transactions
              /\ all_transactions[wallet_addresses[i]] = OwnEvents(i)
        /\ features_list = OwnRows
        /\ normalized_features = FitTransform(features_list)
        /\ ret.rows = FinalDf(features_list, normalized_features)

\* A completed run of three wallets (mixed-case ids among them), one without
\* events and two with different events.
C1_Witness ==
    /\ Completed
    /\ N = 3
    /\ \E i, j, k \in 1..N :
          /\ OwnEvents(i) = <<>>
          /\ OwnEvents(j) # <<>>
          /\ OwnEvents(k) # <<>>
          /\ OwnEvents(j) # OwnEvents(k)
          /\ wallet_addresses[j].mixed
          /\ ret.rows[j].score # ret.rows[k].score

\* C2: with credentials absent or empty the run attempts no fetch, produces no
\* partial result, and what it hands its caller differs from what the
\* empty-input no-op hands back (an empty frame).
C2_ConfigurationErrorSignalled ==
    (pc = "done" /\ wallet_addresses # <<>> /\ ~Truthy(api_key)) =>
        /\ Attempted = {}
        /\ submitted = 0
        /\ features_list = <<>>
        /\ ret # DataFrame(<<>>)

\* C3: a fetch failure never reaches the caller: no run ends in an exception,
\* and a completed run has a score for every wallet, every failed wallet
\* having an empty event sequence and the all-zero feature vector.
C3_FetchFailureRecovered ==
    /\ ret.kind # "Exception"
    /\ Completed =>
          /\ ret.kind = "DataFrame"
          /\ Len(ret.rows) = N
          /\ \A i \in 1..N :
                FetchFailed(i) =>
                    /\ all_transactions[wallet_addresses[i]] = EmptyDataFrame
                    /\ ZeroFeatures(features_list[i])
                    /\ ret.rows[i].wallet_id = wallet_addresses[i]

\* A completed run of three wallets: one request failed (no connection, or
\* an HTTP error status), one got a non-success API status, one has events.
C3_Witness ==
    /\ Completed
    /\ N = 3
    /\ \E i, j, k \in 1..N :
          /\ ledger[wallet_addresses[i]].kind \in {"ConnectionError", "HTTPError"}
          /\ ledger[wallet_addresses[j]].kind = "ok"
          /\ ledger[wallet_addresses[j]].status = "0"
          /\ features_list[k].total_supplied_usd > 0
          /\ ret.rows[i].score # ret.rows[k].score

\* C4: every score a run returns is an integer in 0..1000.
C4_ScoreInRange ==
    (pc = "done" /\ ret.kind = "DataFrame") =>
        \A i \in 1..Len(ret.rows) : ret.rows[i].score \in 0..1000

\* A completed run with a negative wallet age, a non-constant column and a
\* non-zero score.
C4_Witness ==
    /\ Completed
    /\ \E i, j \in 1..N :
          /\ features_list[i].wallet_age_days < 0
          /\ features_list[j].distinct_assets_borrowed = 2
          /\ ret.rows[i].score > 0
          /\ ret.rows[j].score > 0

\* C6: features, normalised values and scores exist only once every task has
\* been submitted, started and finished.
C6_ScoringAfterAllFetches ==
    (features_list # <<>> \/ normalized_features # <<>> \/ ret.rows # <<>>) =>
        AllFetchesDone

\* Features of a batch of three have been computed.
C6_Witness ==
    /\ pc = "score"
    /\ Len(features_list) = 3
    /\ AllFetchesDone

ColumnNames == Range(feature_columns)

\* C7: per column, every normalised value n of a value x satisfies
\* n * (max - min) = x - min and 0 <= n <= 1 when min < max (so the minimum
\* maps to 0 and the maximum to 1), and n = 0 when min = max.
C7_MinMaxNormalisation ==
    normalized_features # <<>> =>
        \A c \in ColumnNames :
            LET col == ColumnOf(features_list, c)
                lo  == RMinOf(col)
                hi  == RMaxOf(col)
            IN  \A i \in 1..N :
                    LET n == normalized_features[i][c]
                    IN  IF lo = hi
                        THEN n = RInt(0)
                        ELSE /\ RMul(n, RSub(hi, lo)) = RSub(col[i], lo)
                             /\ RLe(RInt(0), n)
                             /\ RLe(n, RInt(1))
                             /\ (col[i] = lo => n = RInt(0))
                             /\ (col[i] = hi => n = RInt(1))

\* A scored batch where the health factor column has a minimum, a maximum and
\* a value strictly between, and the age column has a negative minimum.
C7_Witness ==
    /\ normalized_features # <<>>
    /\ \E i, j, k \in 1..N :
          /\ normalized_features[i]["health_factor_proxy"] = RInt(0)
          /\ normalized_features[k]["health_factor_proxy"] = RInt(1)
          /\ RLt(RInt(0), normalized_features[j]["health_factor_proxy"])
          /\ RLt(normalized_features[j]["health_factor_proxy"], RInt(1))
    /\ \E i \in 1..N : features_list[i].wallet_age_days < 0

\* C8 as claimed: a batch of one wallet scores 0.
C8_SingleWalletScoresZero ==
    (Completed /\ N = 1) => ret.rows[1].score = 0

\* C8 amended: in a batch of one wallet every column has min = max and
\* normalises to 0, and the inverted age term (1 - 0, weight 0.05) makes the
\* score 50, whatever the wallet's events are.
C8_SingleWalletScoresFifty ==
    (Completed /\ N = 1) =>
        /\ \A c \in ColumnNames : normalized_features[1][c] = RInt(0)
        /\ ret.rows[1].score = 50

\* A completed run of one wallet that has events.
C8_Witness ==
    /\ Completed
    /\ N = 1
    /\ features_list[1].total_supplied_usd > 0

RECURSIVE SupplyTotal(_)
SupplyTotal(df) ==
    IF df = <<>> THEN 0
    ELSE (IF Head(df).event_type = "Mint" THEN Head(df).value_usd ELSE 0)
         + SupplyTotal(Tail(df))

\* C9: for every wallet total_supplied_usd is the sum of value_usd over its
\* Mint events alone, total_borrowed_usd is 0.4 times that, and a wallet
\* without events has all features 0.
C9_SuppliedAndBorrowed ==
    features_list # <<>> =>
        \A i \in 1..N :
            LET df == all_transactions[wallet_addresses[i]]
            IN  /\ features_list[i].total_supplied_usd = SupplyTotal(df)
                /\ 10 * features_list[i].total_borrowed_usd
                       = 4 * features_list[i].total_supplied_usd
                /\ (df = <<>> => ZeroFeatures(features_list[i]))

\* Features were computed for a wallet with a Mint and a Redeem event and for
\* a wallet without events.
C9_Witness ==
    /\ features_list # <<>>
    /\ \E i, j \in 1..N :
          /\ \E a, b \in 1..Len(all_transactions[wallet_addresses[i]]) :
                /\ all_transactions[wallet_addresses[i]][a].event_type = "Mint"
                /\ all_transactions[wallet_addresses[i]][b].event_type = "Redeem"
                /\ all_transactions[wallet_addresses[i]][b].value_usd > 0
          /\ all_transactions[wallet_addresses[j]] = <<>>

\* C10: the two liquidation columns are 0 for every wallet and normalise to 0,
\* and no returned score exceeds 450.
C10_ScoreAtMost450 ==
    (pc = "done" /\ ret.kind = "DataFrame") =>
        \A i \in 1..Len(ret.rows) :
            /\ features_list[i].liquidation_count = 0
            /\ features_list[i].total_liquidated_usd = 0
            /\ normalized_features[i]["liquidation_count"] = RInt(0)
            /\ normalized_features[i]["total_liquidated_usd"] = RInt(0)
            /\ ret.rows[i].score <= 450

\* A wallet reaches the score 450.
C10_Witness ==
    /\ Completed
    /\ \E i \in 1..N : ret.rows[i].score = 450

AllDispatched == \A i \in 1..N : i \in Attempted

====
